---- MODULE Spec2Model ----
(***************************************************************************)
(* Financial-data ETL pipeline: extract (src/etl/extract.js), transform     *)
(* (src/etl/transform.js), load (src/etl/load.js) and the orchestrator      *)
(* runETLPipeline (src/etl/index.js), over the two storage tables of the    *)
(* schema migration.                                                        *)
(*                                                                          *)
(* A call is either a pipeline run (runETLPipeline) or a direct call of the *)
(* exported load().  Every await of the code is a step boundary: a request  *)
(* is issued by one action and its response is handled by another.          *)
(*                                                                          *)
(* startScheduler (src/scheduler.js) validates the cron expression, starts  *)
(* one run at once and one at every tick of the scheduled task.             *)
(***************************************************************************)
EXTENDS Integers, Sequences, FiniteSets, Bags, TLC

\* ---- bounds of the model -------------------------------------------------
MaxCalls == 2        \* calls (pipeline runs or load() calls) started overall
MaxDay == 2          \* calendar days the upstream history can cover
MaxBatch == 2        \* length of the batch handed to a direct load() call

MaxInFlight == 2     \* calls that can be in flight together
MaxBars == 92        \* bars of the longest series handed to the Metric Engine
MaxPermuted == 3     \* series up to this length are taken in every arrival order
MaxInvocations == 2  \* invocations of the Metric Engine on one RawSeries

Slots == 1..MaxInFlight

VARIABLES
  STOCKS_TO_TRACK,   \* configured equity list (env STOCKS_TO_TRACK)
  today,             \* the upstream's latest trading day / the clock
  callsLeft,         \* number of calls the callers may still start
  pc,                \* per slot: position of the call
  kind,              \* per slot: "pipeline" | "load"
  fetch,             \* per slot: per equity, the state of fetchStockData
                     \* (st; when done, its value and, as history, its outcome)
  marketData,        \* per slot: RawSeries of the index (or NotYet)
  savedFilePath,     \* per slot: result of saveRawData ("none" | "saved" | "null")
  stockMetrics,      \* per slot: batch of MetricsRecords handed to load
  marketIndicators,  \* per slot: index MetricsRecord (Null = absent)
  idx,               \* per slot: position of loadStockMetrics' loop
  results,           \* per slot: loadStockMetrics' results {success, errors}
  loadResult,        \* per slot: value returned by load()
  result,            \* per slot: value runETLPipeline resolves to
  stock_metrics,     \* table stock_metrics: bag of rows
  market_indicators, \* table market_indicators: bag of rows
  writes,            \* history, per slot: storage writes issued by the call
  fault,             \* history, per slot: stage that raised ("none" if none)
  rawData,           \* per slot: value extract() returned (or NotYet)
  audit,             \* history, per slot: the calls of saveRawData
  rawSeries,         \* Metric Engine on its own: the RawSeries object passed
  passed,            \* history: that RawSeries as it was when first passed
  returned,          \* history: the MetricsRecords the invocations returned
  ETL_SCHEDULE,      \* the cron expression (env ETL_SCHEDULE)
  process,           \* "starting" | "running" | "exited" (process.exit)
  task,              \* the node-cron task: "none" | "scheduled"
  ticks,             \* history: ticks of the task so far
  origin,            \* history, per slot: who started the run, and the number
                     \* of failures logged before it started
  logged,            \* per slot: what the caller logged when the run settled
  failuresLogged     \* history: failure results and errors logged so far

vars == <<STOCKS_TO_TRACK, today, callsLeft, pc, kind, fetch, marketData,
          savedFilePath, stockMetrics, marketIndicators, idx, results,
          loadResult, result, stock_metrics, market_indicators, writes, fault,
          rawData, audit, rawSeries, passed, returned, ETL_SCHEDULE, process,
          task, ticks, origin, logged, failuresLogged>>

engineVars == <<rawSeries, passed, returned>>
schedulerVars == <<ETL_SCHEDULE, process, task, ticks, origin, logged, failuresLogged>>
config == <<STOCKS_TO_TRACK, engineVars, schedulerVars>>
extractVars == <<fetch, marketData, savedFilePath, rawData, audit>>
transformVars == <<stockMetrics, marketIndicators>>
loadVars == <<idx, results, loadResult, writes>>
tables == <<stock_metrics, market_indicators>>

\* JS values that are not there yet / null, as records so that they compare
\* with the objects they stand in for
NotYet == [notYet |-> TRUE]
Null == [null |-> TRUE]
INDEX_NAME == "S&P500"

Has(rec, f) == f \in DOMAIN rec

\* ---- numbers and numeric strings -----------------------------------------
\* A JS number is modelled exactly, as a fraction in lowest terms [n, d] with
\* d > 0, or as NaN; a string is the sequence of its characters.
NaN == [nan |-> TRUE]
IsNaN(x) == Has(x, "nan")

Abs(i) == IF i < 0 THEN -i ELSE i

RECURSIVE GCD(_, _)
GCD(a, b) == IF b = 0 THEN a ELSE GCD(b, a % b)

Rat(n, d) ==
  LET g == GCD(Abs(n), Abs(d))
      sgn == IF d < 0 THEN -1 ELSE 1
  IN [n |-> sgn * (n \div g), d |-> sgn * (d \div g)]

Num(i) == [n |-> i, d |-> 1]

RatAdd(a, b) ==
  IF IsNaN(a) \/ IsNaN(b) THEN NaN
  ELSE LET g == GCD(a.d, b.d)
       IN Rat(a.n * (b.d \div g) + b.n * (a.d \div g), a.d * (b.d \div g))

RatNeg(a) == IF IsNaN(a) THEN NaN ELSE [n |-> -a.n, d |-> a.d]
RatSub(a, b) == RatAdd(a, RatNeg(b))

RatMul(a, b) ==
  IF IsNaN(a) \/ IsNaN(b) THEN NaN
  ELSE LET g1 == GCD(Abs(a.n), b.d)
           g2 == GCD(Abs(b.n), a.d)
       IN Rat((a.n \div g1) * (b.n \div g2), (a.d \div g2) * (b.d \div g1))

\* x / 0 is Infinity or NaN in JS; neither is a fraction
RatDiv(a, b) ==
  IF IsNaN(a) \/ IsNaN(b) THEN NaN
  ELSE IF b.n = 0 THEN NaN
  ELSE RatMul(a, Rat(b.d, b.n))

DigitChars == <<"0", "1", "2", "3", "4", "5", "6", "7", "8", "9">>
IsDigit(c) == \E k \in DOMAIN DigitChars : DigitChars[k] = c
DigitValue(c) == (CHOOSE k \in DOMAIN DigitChars : DigitChars[k] = c) - 1

RECURSIVE DecimalString(_)
\* the decimal numeral of a natural number
DecimalString(i) ==
  IF i < 10 THEN <<DigitChars[i + 1]>>
  ELSE Append(DecimalString(i \div 10), DigitChars[(i % 10) + 1])

RECURSIVE DigitPrefix(_)
\* the leading decimal digits of a string
DigitPrefix(str) ==
  IF str = << >> \/ ~IsDigit(Head(str)) THEN << >>
  ELSE <<Head(str)>> \o DigitPrefix(Tail(str))

RECURSIVE DigitsValue(_)
DigitsValue(ds) ==
  IF ds = << >> THEN 0
  ELSE 10 * DigitsValue(SubSeq(ds, 1, Len(ds) - 1)) + DigitValue(ds[Len(ds)])

RECURSIVE Pow10(_)
Pow10(k) == IF k = 0 THEN 1 ELSE 10 * Pow10(k - 1)

\* parseFloat(str): optional sign, digits, optional fraction; what follows the
\* numeral is ignored, a string that starts with no numeral gives NaN
parseFloat(str) ==
  LET neg == str # << >> /\ Head(str) = "-"
      body == IF neg THEN Tail(str) ELSE str
      ip == DigitPrefix(body)
      rest == SubSeq(body, Len(ip) + 1, Len(body))
      fp == IF rest # << >> /\ Head(rest) = "." THEN DigitPrefix(Tail(rest)) ELSE << >>
      mag == Rat(DigitsValue(ip) * Pow10(Len(fp)) + DigitsValue(fp), Pow10(Len(fp)))
  IN IF ip = << >> /\ fp = << >> THEN NaN
     ELSE IF neg THEN RatNeg(mag) ELSE mag

\* parseInt(str, 10): optional sign and digits; stops at the first other character
parseInt(str) ==
  LET neg == str # << >> /\ Head(str) = "-"
      body == IF neg THEN Tail(str) ELSE str
      ip == DigitPrefix(body)
  IN IF ip = << >> THEN NaN
     ELSE IF neg THEN Num(-DigitsValue(ip)) ELSE Num(DigitsValue(ip))

\* ---- upstream sources -----------------------------------------------------
\* close of the bar of day d, as the upstream publishes it
UpstreamClose(d) == 100 + d

\* the numeral "x.y" of t tenths
DecimalTenths(t) == DecimalString(t \div 10) \o <<".", DigitChars[(t % 10) + 1]>>

\* one bar of 'Time Series (Daily)': numeric strings under the keys '1. open',
\* '2. high', '3. low', '4. close', '5. volume'; prices are given in tenths
DailyBar(open, high, low, close, volume) ==
  [open |-> DecimalTenths(open), high |-> DecimalTenths(high),
   low |-> DecimalTenths(low), close |-> DecimalTenths(close),
   volume |-> DecimalString(volume)]

\* one element of 'historical': a date and JSON numbers; prices in tenths
HistoricalBar(date, open, high, low, close, volume) ==
  [date |-> date, open |-> Rat(open, 10), high |-> Rat(high, 10),
   low |-> Rat(low, 10), close |-> Rat(close, 10), volume |-> Num(volume)]

\* 'Time Series (Daily)' of the price source: an object with one bar per day up
\* to today, keyed by date, most recent first
TimeSeriesDaily(day) ==
  [i \in 1..day |->
     LET d == day + 1 - i
     IN [key |-> d,
         value |-> LET c == 10 * UpstreamClose(d)
                   IN DailyBar(c, c + 5, c - 5, c, 1000 + d)]]

\* OVERVIEW payload of the fundamentals source
OverviewPayload ==
  [MarketCapitalization |-> DecimalString(1000000), PERatio |-> DecimalString(20),
   DividendYield |-> <<"0", ".", "0", "2">>]

\* 'historical' list of the index source, in upstream order
Historical(day) ==
  [i \in 1..day |->
     LET c == 10 * UpstreamClose(i)
     IN HistoricalBar(i, c, c + 5, c - 5, c, 1000 + i)]

PriceOutcomes == {"data", "nodata", "network", "errorPayload", "malformed"}
OverviewOutcomes == {"ok", "network"}
IndexOutcomes == {"data", "nodata", "network", "malformed"}

\* message of the exception that fetchStockData catches
StockErrorMessage(symbol, out) ==
  CASE out = "network" -> "Network Error"
    [] out = "errorPayload" -> "Alpha Vantage API error for " \o symbol \o ": Invalid API call"
    [] out = "malformed" -> "Cannot read properties of null"

UpstreamErrors ==
  {StockErrorMessage(s, o) : s \in {"AAPL", "MSFT", "GOOGL"},
                             o \in {"network", "errorPayload", "malformed"}}
  \cup {"Failed to fetch S&P 500 data"}

\* ---- extract.js -------------------------------------------------------------
\* a catch block that keeps the fields of the successful shape
fetchStockDataFailedKeepsSeries(symbol, message) ==
  [symbol |-> symbol, error |-> message, timeSeries |-> << >>,
   overview |-> << >>, extractedAt |-> today]

\* catch block of fetchStockData: the partial object
fetchStockDataFailed(symbol, message) ==
  [symbol |-> symbol, error |-> message, extractedAt |-> today]

\* return value of fetchStockData after both responses and the delay
fetchStockDataValue(symbol, timeSeries, overview) ==
  [symbol |-> symbol, timeSeries |-> timeSeries, overview |-> overview,
   extractedAt |-> today]

\* fetchMarketIndexData, given the outcome of its single request
fetchMarketIndexData(out) ==
  IF out \in {"data", "nodata"}
  THEN [index |-> INDEX_NAME,
        historical |-> IF out = "data" THEN Historical(today) ELSE << >>,
        extractedAt |-> today]
  ELSE [index |-> INDEX_NAME,
        error |-> IF out = "network" THEN "Network Error"
                  ELSE "Failed to fetch S&P 500 data",
        extractedAt |-> today]

NumStocks == Len(STOCKS_TO_TRACK)
AllFetched(f) == \A i \in DOMAIN f : f[i].st = "done"

\* stockData of extract(): the resolved values of Promise.all
stockData(r) == [i \in DOMAIN fetch[r] |-> fetch[r][i].value]

\* an extract() that gives up the batch when the audit file was not written
extractReturnNothingUnsaved(extractedData, path) ==
  IF path = "null"
  THEN [stockData |-> << >>, marketData |-> Null,
        extractionTimestamp |-> extractedData.extractionTimestamp]
  ELSE extractedData

\* `return extractedData` (line 139), whatever saveRawData returned
extractReturn(extractedData, path) == extractedData

\* ---- transform.js -----------------------------------------------------------
\* Object.keys(obj): the keys of an object, in insertion order
ObjectKeys(obj) == [i \in DOMAIN obj |-> obj[i].key]

\* obj[k]
Get(obj, k) == obj[CHOOSE i \in DOMAIN obj : obj[i].key = k].value

\* keys.sort((a, b) => new Date(b) - new Date(a)): the keys, latest first.
\* A date is modelled by its calendar day number, which is what new Date(...)
\* compares; the keys of an object are distinct.
SortDesc(keys) ==
  IF keys = << >> THEN << >>
  ELSE LET S == {keys[i] : i \in DOMAIN keys}
           hi == CHOOSE x \in S : \A y \in S : y <= x
           lo == CHOOSE x \in S : \A y \in S : x <= y
           days == [i \in 1..(hi - lo + 1) |-> hi + 1 - i]
           IsKey(d) == d \in S
       IN SelectSeq(days, IsKey)

\* a transformation that takes the list in arrival order
historicalUnsorted(list) == list

\* [...historical].sort((a, b) => new Date(b.date) - new Date(a.date)): the
\* elements, latest first (the dates of a series are distinct)
SortByDateDesc(list) ==
  LET dates == SortDesc([i \in DOMAIN list |-> list[i].date])
  IN [p \in DOMAIN dates |->
        list[CHOOSE j \in DOMAIN list : list[j].date = dates[p]]]

\* the sort works on a copy that is sorted in place of the input
historicalSortedInPlace(md) ==
  IF Has(md, "historical") THEN [md EXCEPT !.historical = SortByDateDesc(@)] ELSE md

\* the marketData object after calculateMarketIndicators(marketData): line 148
\* sorts the spread copy [...historical]
historicalAfterCall(md) == md

\* a degenerate record that spells out the missing fields as nulls
degenerateRecordWithNulls(idField, id, message) ==
  (idField :> id) @@ [error |-> message, date |-> Null, price |-> Null,
                      transformedAt |-> today]

\* { symbol | index, error, transformedAt: new Date().toISOString() }
degenerateRecord(idField, id, message) ==
  (idField :> id) @@ [error |-> message, transformedAt |-> today]

\* a no-data message that repeats an upstream failure's message
NoTimeSeriesMessageReused == "Network Error"

NoTimeSeriesMessage == "No time series data available"
NoHistoricalMessage == "No historical data available"

\* a lookback that needs one bar more than the window
hasLookbackLate(n, k) == n > k + 1

\* `dates.length > 7 ? timeSeries[dates[7]] : null` and its two siblings
hasLookback(n, k) == n > k

\* a percent change taken from the absolute change rounded to whole units
percentChangeOfRounded(change, close) ==
  IF IsNaN(change) \/ IsNaN(close) THEN NaN
  ELSE RatMul(RatDiv(Num(change.n \div change.d), close), Num(100))

\* (priceChange / close) * 100
percentChange(change, close) == RatMul(RatDiv(change, close), Num(100))

\* closes: the closes in date-descending order; JS index k is position k + 1
priceChanges(latestClose, closes) ==
  LET n == Len(closes)
      change(k) == IF hasLookback(n, k) THEN RatSub(latestClose, closes[k + 1]) ELSE Null
      percent(k) == IF hasLookback(n, k)
                    THEN percentChange(change(k), closes[k + 1]) ELSE Null
  IN [change7d |-> change(7), change30d |-> change(30), change90d |-> change(90),
      percentChange7d |-> percent(7), percentChange30d |-> percent(30),
      percentChange90d |-> percent(90)]

RECURSIVE RatSum(_)
\* values.reduce((sum, value) => sum + value, 0); exact addition is
\* associative, so the sum is taken by halves
RatSum(values) ==
  IF values = << >> THEN Num(0)
  ELSE IF Len(values) = 1 THEN RatAdd(Num(0), values[1])
  ELSE LET h == Len(values) \div 2
       IN RatAdd(RatSum(SubSeq(values, 1, h)),
                 RatSum(SubSeq(values, h + 1, Len(values))))

\* a sample variance: the squared deviations over length - 1
sampleVariance(returns) ==
  LET mean == RatDiv(RatSum(returns), Num(Len(returns)))
      squaredDiffs == [j \in DOMAIN returns |->
                         RatMul(RatSub(returns[j], mean), RatSub(returns[j], mean))]
  IN RatDiv(RatSum(squaredDiffs), Num(Len(returns) - 1))

\* mean, squaredDiffs and variance of lines 70-72
populationVariance(returns) ==
  LET mean == RatDiv(RatSum(returns), Num(Len(returns)))
      squaredDiffs == [j \in DOMAIN returns |->
                         RatMul(RatSub(returns[j], mean), RatSub(returns[j], mean))]
  IN RatDiv(RatSum(squaredDiffs), Num(Len(returns)))

\* Math.sqrt(variance) * Math.sqrt(252) * 100, kept as the product it is
annualized(variance) == [sqrt |-> variance, timesSqrt |-> Num(252), times |-> Num(100)]

\* the loop of lines 60-67 over i = 0..29 and the standard deviation
volatility30d(closes) ==
  IF Len(closes) > 30
  THEN LET pushed == {i \in 0..29 : i + 1 < Len(closes)}
           returns == [j \in 1..Cardinality(pushed) |->
                         RatDiv(RatSub(closes[j], closes[j + 1]), closes[j + 1])]
       IN annualized(populationVariance(returns))
  ELSE Null

\* `X ? parseFloat(X) : null`: an absent or empty field is null
fundamental(overview, field) ==
  IF Has(overview, field) /\ overview[field] # << >>
  THEN parseFloat(overview[field]) ELSE Null

\* a ratio field passed through as the fraction the source gives
fundamentalPercentUnscaled(overview, field) ==
  IF Has(overview, field) /\ overview[field] # << >>
  THEN parseFloat(overview[field]) ELSE Null

\* `X ? parseFloat(X) * 100 : null`
fundamentalPercent(overview, field) ==
  IF Has(overview, field) /\ overview[field] # << >>
  THEN RatMul(parseFloat(overview[field]), Num(100)) ELSE Null

fundamentals(overview) ==
  [marketCap |-> fundamental(overview, "MarketCapitalization"),
   peRatio |-> fundamental(overview, "PERatio"),
   dividendYield |-> fundamentalPercent(overview, "DividendYield"),
   eps |-> fundamental(overview, "EPS"),
   revenue |-> fundamental(overview, "RevenueTTM"),
   grossProfit |-> fundamental(overview, "GrossProfitTTM"),
   profitMargin |-> fundamentalPercent(overview, "ProfitMargin"),
   operatingMargin |-> fundamentalPercent(overview, "OperatingMarginTTM"),
   roa |-> fundamentalPercent(overview, "ReturnOnAssetsTTM"),
   roe |-> fundamentalPercent(overview, "ReturnOnEquityTTM"),
   dilutedEPS |-> fundamental(overview, "DilutedEPSTTM")]

calculateStockMetrics(sd) ==
  IF Has(sd, "error")
  THEN degenerateRecord("symbol", sd.symbol, sd.error)
  ELSE LET timeSeries == sd.timeSeries
           dates == SortDesc(ObjectKeys(timeSeries))
       IN IF Len(dates) = 0
          THEN degenerateRecord("symbol", sd.symbol, NoTimeSeriesMessage)
          ELSE LET latestDate == dates[1]
                   latestData == Get(timeSeries, latestDate)
                   latestClose == parseFloat(latestData.close)
                   closes == [i \in DOMAIN dates |->
                                parseFloat(Get(timeSeries, dates[i]).close)]
               IN [symbol |-> sd.symbol, date |-> latestDate,
                   price |-> [open |-> parseFloat(latestData.open),
                              high |-> parseFloat(latestData.high),
                              low |-> parseFloat(latestData.low),
                              close |-> latestClose,
                              volume |-> parseInt(latestData.volume)],
                   priceChanges |-> priceChanges(latestClose, closes),
                   volatility |-> [volatility30d |-> volatility30d(closes)],
                   fundamentals |-> fundamentals(sd.overview),
                   transformedAt |-> today]

calculateMarketIndicators(md) ==
  IF Has(md, "error")
  THEN degenerateRecord("index", md.index, md.error)
  ELSE LET sortedData == SortByDateDesc(md.historical)
       IN IF Len(sortedData) = 0
          THEN degenerateRecord("index", md.index, NoHistoricalMessage)
          ELSE LET latestData == sortedData[1]
                   latestClose == latestData.close
                   closes == [i \in DOMAIN sortedData |-> sortedData[i].close]
               IN [index |-> md.index, date |-> latestData.date,
                   price |-> [open |-> latestData.open, high |-> latestData.high,
                              low |-> latestData.low, close |-> latestData.close,
                              volume |-> latestData.volume],
                   priceChanges |-> priceChanges(latestClose, closes),
                   volatility |-> [volatility30d |-> volatility30d(closes)],
                   transformedAt |-> today]

\* ---- storage (schema migration) ----------------------------------------------
\* UNIQUE(symbol, date) of stock_metrics, UNIQUE(index_name, date) of
\* market_indicators
KeyOf(row) ==
  IF Has(row, "symbol") THEN <<row.symbol, row.date>>
  ELSE <<row.index_name, row.date>>

WriteOutcomes == {"ok", "error", "throw"}

\* an insert into a table without the unique constraint
insertNoUnique(table, row, out) ==
  CASE out = "error" -> [error |-> [message |-> "connection refused"], table |-> table]
    [] out = "throw" -> [error |-> [message |-> "fetch failed"], table |-> table]
    [] out = "ok" -> [error |-> Null, table |-> table (+) SetToBag({row})]

\* What one insert does to a table that carries UNIQUE(key): out = "ok" means
\* the request reached the database; "error" is a returned storage error,
\* "throw" an exception of the client; neither changes the table.
insert(table, row, out) ==
  CASE out = "error" -> [error |-> [message |-> "connection refused"], table |-> table]
    [] out = "throw" -> [error |-> [message |-> "fetch failed"], table |-> table]
    [] out = "ok" ->
         IF \E x \in BagToSet(table) : KeyOf(x) = KeyOf(row)
         THEN [error |-> [message |-> "duplicate key value violates unique constraint"],
               table |-> table]
         ELSE [error |-> Null, table |-> table (+) SetToBag({row})]

RowsWithKey(table, k) ==
  LET S == {x \in BagToSet(table) : KeyOf(x) = k}
      RECURSIVE Sum(_)
      Sum(T) == IF T = {} THEN 0
                ELSE LET x == CHOOSE y \in T : TRUE
                     IN CopiesIn(x, table) + Sum(T \ {x})
  IN Sum(S)

\* ---- load.js ------------------------------------------------------------------
\* a Loader that attempts every record
skipsWriteNever(rec) == FALSE

\* `if (stock.error)` (line 26) and `marketIndicators.error` (line 95)
skipsWrite(rec) == Has(rec, "error")

\* building the row object for .insert([...]) throws a TypeError when the
\* record has no price block (stock.price.open)
buildThrows(rec) == ~Has(rec, "price")

stockRow(stock) ==
  [symbol |-> stock.symbol, date |-> stock.date, price_close |-> stock.price.close]

indexRow(mi) ==
  [index_name |-> mi.index, date |-> mi.date, price_close |-> mi.price.close]

\* a try/catch around the whole loop: the first failure ends the batch
loadStockMetricsNextAbort(i, n, failed) == IF failed THEN n + 1 ELSE i + 1

\* the for-of loop of loadStockMetrics goes on to the next record whether the
\* write of record i failed or not (the try/catch is inside the loop body)
loadStockMetricsNext(i, n, failed) == i + 1

\* counts that take every batch record that is not loaded for loaded
loadCountsSwapped(stockResults, marketResult) ==
  [stocksLoaded |-> Len(stockResults.success),
   stockErrors |-> Len(stockResults.errors),
   indicatorsLoaded |-> IF marketResult.success THEN 0 ELSE 1,
   indicatorErrors |-> IF marketResult.success THEN 1 ELSE 0,
   timestamp |-> today]

\* value returned by load()
loadCounts(stockResults, marketResult) ==
  [stocksLoaded |-> Len(stockResults.success),
   stockErrors |-> Len(stockResults.errors),
   indicatorsLoaded |-> IF marketResult.success THEN 1 ELSE 0,
   indicatorErrors |-> IF marketResult.success THEN 0 ELSE 1,
   timestamp |-> today]

\* ---- index.js -------------------------------------------------------------------
\* runETLPipeline without its catch block: the call rejects
runETLPipelineRethrow(error) == [rejected |-> error]

\* catch block of runETLPipeline
runETLPipelineCatch(error) == [success |-> FALSE, error |-> error.message]

runETLPipelineReturn == [success |-> TRUE, message |-> "ETL pipeline completed successfully"]

\* a run that reports failure when load() has loaded nothing
runETLPipelineFailsWhenNothingLoaded(counts) ==
  IF counts.stocksLoaded = 0 /\ counts.indicatorsLoaded = 0
  THEN [success |-> FALSE, error |-> "nothing loaded"]
  ELSE runETLPipelineReturn

\* lines 183-187: the value of load() is logged, then the fixed result is returned
runETLPipelineResolve(counts) == runETLPipelineReturn

\* a catch block that logs the error and lets the run go on to its last stage
runETLPipelineCatchAndGoOn(p) == "loadingIndex"

\* the catch block returns: no statement of the try block runs after a raise
runETLPipelineAfterCatch(p) == "done"

StageOf(p) ==
  CASE p \in {"extracting", "index", "audit"} -> "extract"
    [] p = "transforming" -> "transform"
    [] p \in {"loadingStocks", "loadingIndex"} -> "load"
    [] OTHER -> "none"

\* ---- initial state ------------------------------------------------------------
EmptyResults == [success |-> << >>, errors |-> << >>]

InitCalls ==
  /\ today = 1
  /\ pc = [r \in Slots |-> "idle"]
  /\ kind = [r \in Slots |-> "none"]
  /\ fetch = [r \in Slots |-> << >>]
  /\ marketData = [r \in Slots |-> NotYet]
  /\ savedFilePath = [r \in Slots |-> "none"]
  /\ rawData = [r \in Slots |-> NotYet]
  /\ audit = [r \in Slots |-> << >>]
  /\ stockMetrics = [r \in Slots |-> << >>]
  /\ marketIndicators = [r \in Slots |-> Null]
  /\ idx = [r \in Slots |-> 1]
  /\ results = [r \in Slots |-> EmptyResults]
  /\ loadResult = [r \in Slots |-> NotYet]
  /\ result = [r \in Slots |-> NotYet]
  /\ writes = [r \in Slots |-> << >>]
  /\ fault = [r \in Slots |-> "none"]

\* the Metric Engine is not called outside a run
EngineIdle ==
  /\ rawSeries = NotYet
  /\ passed = NotYet
  /\ returned = << >>

\* `process.env.ETL_SCHEDULE || '0 0 * * *'`
DefaultSchedule == <<<<"0">>, <<"0">>, <<"*">>, <<"*">>, <<"*">>>>

NoOrigin == [by |-> "none", after |-> 0]

\* startScheduler has not been called
SchedulerNotStarted ==
  /\ process = "starting"
  /\ task = "none"
  /\ ticks = 0
  /\ origin = [r \in Slots |-> NoOrigin]
  /\ logged = [r \in Slots |-> "none"]
  /\ failuresLogged = 0

\* rows left in storage by an earlier complete run of the pipeline on `day`
PriorStockRows(day) ==
  SetToBag({[symbol |-> STOCKS_TO_TRACK[i], date |-> day,
             price_close |-> Num(UpstreamClose(day))] : i \in 1..NumStocks})

PriorIndexRows(day) ==
  SetToBag({[index_name |-> INDEX_NAME, date |-> day,
             price_close |-> Num(UpstreamClose(day))]})

\* One invocation with STOCKS_TO_TRACK=AAPL,MSFT,GOOGL, on storage that is
\* empty or holds the rows of an earlier run for day 1
Init ==
  /\ STOCKS_TO_TRACK = <<"AAPL", "MSFT", "GOOGL">>
  /\ callsLeft = 1
  /\ \/ stock_metrics = EmptyBag /\ market_indicators = EmptyBag
     \/ stock_metrics = PriorStockRows(1) /\ market_indicators = PriorIndexRows(1)
  /\ InitCalls
  /\ EngineIdle
  /\ ETL_SCHEDULE = DefaultSchedule
  /\ SchedulerNotStarted

\* A process with STOCKS_TO_TRACK=AAPL whose calls may overlap, on empty storage
InitOverlap ==
  /\ STOCKS_TO_TRACK = <<"AAPL">>
  /\ callsLeft = MaxCalls
  /\ stock_metrics = EmptyBag
  /\ market_indicators = EmptyBag
  /\ InitCalls
  /\ EngineIdle
  /\ ETL_SCHEDULE = DefaultSchedule
  /\ SchedulerNotStarted

\* ---- the callers ----------------------------------------------------------------
Free(r) == pc[r] \in {"idle", "done"}

\* the call takes the lowest free slot
CanStart(r) ==
  /\ callsLeft > 0
  /\ Free(r)
  /\ \A q \in Slots : q < r => ~Free(q)

\* a call starts with fresh locals in slot r
Begin(r, k, p, f, sm, mi) ==
  /\ callsLeft' = callsLeft - 1
  /\ pc' = [pc EXCEPT ![r] = p]
  /\ kind' = [kind EXCEPT ![r] = k]
  /\ fetch' = [fetch EXCEPT ![r] = f]
  /\ marketData' = [marketData EXCEPT ![r] = NotYet]
  /\ savedFilePath' = [savedFilePath EXCEPT ![r] = "none"]
  /\ rawData' = [rawData EXCEPT ![r] = NotYet]
  /\ audit' = [audit EXCEPT ![r] = << >>]
  /\ stockMetrics' = [stockMetrics EXCEPT ![r] = sm]
  /\ marketIndicators' = [marketIndicators EXCEPT ![r] = mi]
  /\ idx' = [idx EXCEPT ![r] = 1]
  /\ results' = [results EXCEPT ![r] = EmptyResults]
  /\ loadResult' = [loadResult EXCEPT ![r] = NotYet]
  /\ result' = [result EXCEPT ![r] = NotYet]
  /\ writes' = [writes EXCEPT ![r] = << >>]
  /\ fault' = [fault EXCEPT ![r] = "none"]
  /\ UNCHANGED <<STOCKS_TO_TRACK, engineVars, today, tables>>

\* first position of load(): loadStockMetrics' loop, or the index when the
\* batch is empty
LoadEntry(batch) == IF Len(batch) = 0 THEN "loadingIndex" ELSE "loadingStocks"

\* runETLPipeline() is called: extract() maps fetchStockData over the list, so
\* every equity's price request is issued before the first await returns
CallPipeline(r) ==
  /\ CanStart(r)
  /\ Begin(r, "pipeline", "extracting",
           [i \in 1..NumStocks |-> [st |-> "price"]], << >>, Null)

\* a caller other than the scheduler calls runETLPipeline()
StartPipeline(r) ==
  /\ CallPipeline(r)
  /\ UNCHANGED schedulerVars

\* the MetricsRecords a direct caller of load() may pass for one equity
LoadRecords ==
  LET s == STOCKS_TO_TRACK[1]
  IN {[symbol |-> s, date |-> d, price |-> [close |-> Num(UpstreamClose(d))],
       transformedAt |-> d] : d \in 1..MaxDay}
     \cup {[symbol |-> s, error |-> "Network Error", transformedAt |-> 1]}
     \cup {[symbol |-> s, error |-> "Network Error", date |-> 1,
            price |-> [close |-> Num(UpstreamClose(1))], transformedAt |-> 1]}

LoadIndexRecords ==
  {[index |-> INDEX_NAME, date |-> d, price |-> [close |-> Num(UpstreamClose(d))],
    transformedAt |-> d] : d \in 1..MaxDay}
  \cup {[index |-> INDEX_NAME, error |-> "Network Error", transformedAt |-> 1]}
  \cup {[index |-> INDEX_NAME, error |-> "Network Error", date |-> 1,
         price |-> [close |-> Num(UpstreamClose(1))], transformedAt |-> 1]}
  \cup {Null}

LoadBatches == UNION {[1..n -> LoadRecords] : n \in 0..MaxBatch}

\* load(transformedData) is called directly
StartLoad(r, batch, mi) ==
  /\ CanStart(r)
  /\ Begin(r, "load", LoadEntry(batch), << >>, batch, mi)
  /\ UNCHANGED schedulerVars

\* the upstream publishes the next trading day (between calls)
NewDay ==
  /\ today < MaxDay
  /\ callsLeft > 0
  /\ \A r \in Slots : Free(r)
  /\ today' = today + 1
  /\ UNCHANGED <<config, callsLeft, pc, kind, extractVars, transformVars,
                 loadVars, result, tables, fault>>

\* ---- extract(): fetchStockData ------------------------------------------------
\* Promise.all resolves when the last fetchStockData has returned; extract()
\* then issues the index request
SetFetch(r, i, nf) ==
  LET f == [fetch[r] EXCEPT ![i] = nf]
  IN /\ fetch' = [fetch EXCEPT ![r] = f]
     /\ pc' = [pc EXCEPT ![r] = IF AllFetched(f) THEN "index" ELSE "extracting"]
     /\ UNCHANGED <<config, today, callsLeft, kind, marketData, savedFilePath,
                    rawData, audit, transformVars, loadVars, result, tables, fault>>

\* response of the TIME_SERIES_DAILY request of equity i
PriceResponse(r, i, out) ==
  /\ pc[r] = "extracting"
  /\ i \in DOMAIN fetch[r]
  /\ fetch[r][i].st = "price"
  /\ LET symbol == STOCKS_TO_TRACK[i]
     IN SetFetch(r, i,
          IF out \in {"data", "nodata"}
          THEN [st |-> "overview",
                timeSeries |-> IF out = "data" THEN TimeSeriesDaily(today) ELSE << >>]
          ELSE [st |-> "done", out |-> out,
                value |-> fetchStockDataFailed(symbol, StockErrorMessage(symbol, out))])

\* response of the OVERVIEW request of equity i
OverviewResponse(r, i, out) ==
  /\ pc[r] = "extracting"
  /\ i \in DOMAIN fetch[r]
  /\ fetch[r][i].st = "overview"
  /\ LET symbol == STOCKS_TO_TRACK[i]
     IN SetFetch(r, i,
          IF out = "ok"
          THEN [st |-> "delay", timeSeries |-> fetch[r][i].timeSeries,
                overview |-> OverviewPayload]
          ELSE [st |-> "done", out |-> out,
                value |-> fetchStockDataFailed(symbol, StockErrorMessage(symbol, out))])

\* the 1500 ms timer of equity i fires and fetchStockData returns
DelayElapsed(r, i) ==
  /\ pc[r] = "extracting"
  /\ i \in DOMAIN fetch[r]
  /\ fetch[r][i].st = "delay"
  /\ SetFetch(r, i,
       [st |-> "done", out |-> "ok",
        value |-> fetchStockDataValue(STOCKS_TO_TRACK[i], fetch[r][i].timeSeries,
                                      fetch[r][i].overview)])

\* response of the index request; extract() then calls saveRawData
IndexResponse(r, out) ==
  /\ pc[r] = "index"
  /\ marketData' = [marketData EXCEPT ![r] = fetchMarketIndexData(out)]
  /\ pc' = [pc EXCEPT ![r] = "audit"]
  /\ UNCHANGED <<config, today, callsLeft, kind, fetch, savedFilePath, rawData,
                 audit, transformVars, loadVars, result, tables, fault>>

\* extract() builds extractedData, awaits saveRawData(extractedData), which
\* writes the file or catches the failure and returns null, and returns
SaveRawData(r, written) ==
  /\ pc[r] = "audit"
  /\ LET extractedData == [stockData |-> stockData(r), marketData |-> marketData[r],
                           extractionTimestamp |-> today]
         path == IF written THEN "saved" ELSE "null"
     IN /\ savedFilePath' = [savedFilePath EXCEPT ![r] = path]
        /\ audit' = [audit EXCEPT ![r] =
                       Append(@, [data |-> extractedData, written |-> written])]
        /\ rawData' = [rawData EXCEPT ![r] = extractReturn(extractedData, path)]
  /\ pc' = [pc EXCEPT ![r] = "transforming"]
  /\ UNCHANGED <<config, today, callsLeft, kind, fetch, marketData,
                 transformVars, loadVars, result, tables, fault>>

\* ---- transform() ----------------------------------------------------------------
\* transform(rawData): one record per RawSeries of the batch, and the index's
Transform(r) ==
  /\ pc[r] = "transforming"
  /\ LET sm == [i \in DOMAIN rawData[r].stockData |->
                  calculateStockMetrics(rawData[r].stockData[i])]
     IN /\ stockMetrics' = [stockMetrics EXCEPT ![r] = sm]
        /\ marketIndicators' = [marketIndicators EXCEPT ![r] =
                                  IF rawData[r].marketData # Null
                                  THEN calculateMarketIndicators(rawData[r].marketData)
                                  ELSE Null]
        /\ pc' = [pc EXCEPT ![r] = LoadEntry(sm)]
  /\ savedFilePath' = [savedFilePath EXCEPT ![r] = "none"]
  /\ UNCHANGED <<config, today, callsLeft, kind, fetch, marketData, rawData, audit,
                 loadVars, result, tables, fault>>

\* ---- load(): loadStockMetrics ---------------------------------------------------
\* the loop moves on from record idx[r]
Advance(r, failed) ==
  LET n == Len(stockMetrics[r])
      i == loadStockMetricsNext(idx[r], n, failed)
  IN /\ idx' = [idx EXCEPT ![r] = i]
     /\ pc' = [pc EXCEPT ![r] = IF i > n THEN "loadingIndex" ELSE "loadingStocks"]

\* a record carrying an error is pushed to results.errors without a write
LoadStockSkip(r) ==
  /\ pc[r] = "loadingStocks"
  /\ LET stock == stockMetrics[r][idx[r]]
     IN /\ skipsWrite(stock)
        /\ results' = [results EXCEPT ![r].errors =
                         Append(@, [symbol |-> stock.symbol, error |-> stock.error])]
        /\ Advance(r, FALSE)
  /\ UNCHANGED <<config, today, callsLeft, kind, extractVars, transformVars,
                 loadResult, result, tables, writes, fault>>

\* the insert of record idx[r] and the handling of its outcome
LoadStockInsert(r, out) ==
  /\ pc[r] = "loadingStocks"
  /\ LET stock == stockMetrics[r][idx[r]]
         early == buildThrows(stock)
         res == IF early
                THEN [error |-> [message |-> "Cannot read properties of undefined"],
                      table |-> stock_metrics]
                ELSE insert(stock_metrics, stockRow(stock), out)
         failed == res.error # Null
     IN /\ ~skipsWrite(stock)
        /\ early => out = "ok"
        /\ stock_metrics' = res.table
        /\ writes' = [writes EXCEPT ![r] =
                        IF early THEN @
                        ELSE Append(@, [table |-> "stock_metrics", i |-> idx[r],
                                        key |-> KeyOf(stockRow(stock)),
                                        out |-> out, ok |-> ~failed])]
        /\ results' = [results EXCEPT ![r] =
                         IF failed
                         THEN [@ EXCEPT !.errors =
                                 Append(@, [symbol |-> stock.symbol,
                                            error |-> res.error.message])]
                         ELSE [@ EXCEPT !.success =
                                 Append(@, [symbol |-> stock.symbol,
                                            date |-> stock.date])]]
        /\ Advance(r, failed)
  /\ UNCHANGED <<config, today, callsLeft, kind, extractVars, transformVars,
                 loadResult, result, market_indicators, fault>>

\* ---- load(): loadMarketIndicators and the return of the call ---------------------
\* load() returns its counts; a pipeline run then resolves to success
Finish(r, marketResult) ==
  /\ loadResult' = [loadResult EXCEPT ![r] = loadCounts(results[r], marketResult)]
  /\ result' = [result EXCEPT ![r] =
                  IF kind[r] = "pipeline"
                  THEN runETLPipelineResolve(loadCounts(results[r], marketResult))
                  ELSE @]
  /\ pc' = [pc EXCEPT ![r] = "done"]

\* no index record, or one carrying an error: no write
LoadIndexSkip(r) ==
  /\ pc[r] = "loadingIndex"
  /\ LET mi == marketIndicators[r]
     IN /\ mi = Null \/ skipsWrite(mi)
        /\ Finish(r, [success |-> FALSE,
                      error |-> IF mi = Null THEN "No market indicators provided"
                                ELSE mi.error])
  /\ UNCHANGED <<config, today, callsLeft, kind, extractVars, transformVars,
                 idx, results, tables, writes, fault>>

\* the insert of the index record and the handling of its outcome
LoadIndexInsert(r, out) ==
  /\ pc[r] = "loadingIndex"
  /\ LET mi == marketIndicators[r]
         early == buildThrows(mi)
         res == IF early
                THEN [error |-> [message |-> "Cannot read properties of undefined"],
                      table |-> market_indicators]
                ELSE insert(market_indicators, indexRow(mi), out)
         failed == res.error # Null
     IN /\ mi # Null
        /\ ~skipsWrite(mi)
        /\ early => out = "ok"
        /\ market_indicators' = res.table
        /\ writes' = [writes EXCEPT ![r] =
                        IF early THEN @
                        ELSE Append(@, [table |-> "market_indicators", i |-> 0,
                                        key |-> KeyOf(indexRow(mi)),
                                        out |-> out, ok |-> ~failed])]
        /\ Finish(r, IF failed
                     THEN [success |-> FALSE, index |-> mi.index,
                           error |-> res.error.message]
                     ELSE [success |-> TRUE, index |-> mi.index, date |-> mi.date])
  /\ UNCHANGED <<config, today, callsLeft, kind, extractVars, transformVars,
                 idx, results, stock_metrics, fault>>

\* ---- runETLPipeline: a stage raises ------------------------------------------------
StageErrors == {"Cannot read properties of undefined"}

\* the awaited stage rejects with an Error; the catch block turns it into the
\* failure result
StageRaises(r, message) ==
  /\ kind[r] = "pipeline"
  /\ StageOf(pc[r]) # "none"
  /\ fault' = [fault EXCEPT ![r] = StageOf(pc[r])]
  /\ result' = [result EXCEPT ![r] = runETLPipelineCatch([message |-> message])]
  /\ pc' = [pc EXCEPT ![r] = runETLPipelineAfterCatch(pc[r])]
  /\ UNCHANGED <<config, today, callsLeft, kind, extractVars, transformVars,
                 loadVars, tables>>

\* ---- scheduler.js ------------------------------------------------------------------
\* a cron expression is the sequence of its fields, a field the sequence of its
\* characters; cron.validate accepts five fields (minute, hour, day of month,
\* month, day of week) or six (seconds first), each "*" or a number in range
CronRanges ==
  <<[lo |-> 0, hi |-> 59], [lo |-> 0, hi |-> 59], [lo |-> 0, hi |-> 23],
    [lo |-> 1, hi |-> 31], [lo |-> 1, hi |-> 12], [lo |-> 0, hi |-> 7]>>

IsCronField(field, range) ==
  \/ field = <<"*">>
  \/ /\ field # << >>
     /\ DigitPrefix(field) = field
     /\ DigitsValue(field) >= range.lo
     /\ DigitsValue(field) <= range.hi

isValidCronExpression(expression) ==
  /\ Len(expression) \in {5, 6}
  /\ \A k \in DOMAIN expression :
       IsCronField(expression[k], CronRanges[k + 6 - Len(expression)])

\* values of ETL_SCHEDULE: the default, 06:30 on Mondays, minute 61, free text
Schedules ==
  {DefaultSchedule,
   <<<<"3", "0">>, <<"6">>, <<"*">>, <<"*">>, <<"1">>>>,
   <<<<"6", "1">>, <<"0">>, <<"*">>, <<"*">>, <<"*">>>>,
   <<<<"d", "a", "i", "l", "y">>>>}

\* what the caller sees when the promise of a run settles
outcomeOf(settled) ==
  IF Has(settled, "rejected") THEN "error"
  ELSE IF settled.success THEN "success" ELSE "failure"

\* a caller that ends the process on a run that did not succeed
processExitsOnFailure(outcome) == IF outcome = "success" THEN "running" ELSE "exited"

\* lines 38-46 and 54-61: every outcome is logged, and that is all
processAfterSettled(outcome) == "running"

\* no continuation of a settled run is waiting to run
NoPendingHandler ==
  \A q \in Slots : (origin[q].by # "none" /\ pc[q] = "done") => logged[q] # "none"

\* startScheduler(): an invalid expression ends the process; a valid one is
\* scheduled and the first run is started
StartScheduler(r) ==
  /\ process = "starting"
  /\ IF ~isValidCronExpression(ETL_SCHEDULE)
     THEN /\ process' = "exited"
          /\ UNCHANGED <<ETL_SCHEDULE, task, ticks, origin, logged, failuresLogged,
                         STOCKS_TO_TRACK, engineVars, today, callsLeft, pc, kind,
                         extractVars, transformVars, loadVars, result, tables, fault>>
     ELSE /\ task' = "scheduled"
          /\ process' = "running"
          /\ CallPipeline(r)
          /\ origin' = [origin EXCEPT ![r] = [by |-> "startup", after |-> failuresLogged]]
          /\ logged' = [logged EXCEPT ![r] = "none"]
          /\ UNCHANGED <<ETL_SCHEDULE, ticks, failuresLogged>>

\* the task fires: the callback calls runETLPipeline(), whatever runs are in flight
CronTick(r) ==
  /\ process = "running"
  /\ task = "scheduled"
  /\ NoPendingHandler
  /\ CallPipeline(r)
  /\ ticks' = ticks + 1
  /\ origin' = [origin EXCEPT ![r] = [by |-> "tick", after |-> failuresLogged]]
  /\ logged' = [logged EXCEPT ![r] = "none"]
  /\ UNCHANGED <<ETL_SCHEDULE, process, task, failuresLogged>>

\* the run of slot r has settled: the callback (after its await) or the
\* then/catch of the first run logs the outcome
RunSettled(r) ==
  /\ process = "running"
  /\ origin[r].by # "none"
  /\ pc[r] = "done"
  /\ logged[r] = "none"
  /\ LET outcome == outcomeOf(result[r])
     IN /\ logged' = [logged EXCEPT ![r] = outcome]
        /\ failuresLogged' = failuresLogged + (IF outcome = "success" THEN 0 ELSE 1)
        /\ process' = processAfterSettled(outcome)
  /\ UNCHANGED <<ETL_SCHEDULE, task, ticks, origin, STOCKS_TO_TRACK, engineVars,
                 today, callsLeft, pc, kind, extractVars, transformVars, loadVars,
                 result, tables, fault>>

\* ---- specifications -------------------------------------------------------------------
Next ==
  \/ \E r \in Slots : StartPipeline(r)
  \/ \E r \in Slots, batch \in LoadBatches, mi \in LoadIndexRecords : StartLoad(r, batch, mi)
  \/ NewDay
  \/ \E r \in Slots, i \in 1..NumStocks, out \in PriceOutcomes : PriceResponse(r, i, out)
  \/ \E r \in Slots, i \in 1..NumStocks, out \in OverviewOutcomes : OverviewResponse(r, i, out)
  \/ \E r \in Slots, i \in 1..NumStocks : DelayElapsed(r, i)
  \/ \E r \in Slots, out \in IndexOutcomes : IndexResponse(r, out)
  \/ \E r \in Slots, written \in BOOLEAN : SaveRawData(r, written)
  \/ \E r \in Slots : Transform(r)
  \/ \E r \in Slots : LoadStockSkip(r)
  \/ \E r \in Slots, out \in WriteOutcomes : LoadStockInsert(r, out)
  \/ \E r \in Slots : LoadIndexSkip(r)
  \/ \E r \in Slots, out \in WriteOutcomes : LoadIndexInsert(r, out)
  \/ \E r \in Slots, message \in StageErrors : StageRaises(r, message)

Spec == Init /\ [][Next]_vars

\* overlapping calls, under one failure kind per source
NextOverlap ==
  \/ \E r \in Slots : StartPipeline(r)
  \/ \E r \in Slots, batch \in [1..1 -> LoadRecords], mi \in LoadIndexRecords :
        StartLoad(r, batch, mi)
  \/ NewDay
  \/ \E r \in Slots, i \in 1..NumStocks, out \in {"data", "network"} : PriceResponse(r, i, out)
  \/ \E r \in Slots, i \in 1..NumStocks : OverviewResponse(r, i, "ok")
  \/ \E r \in Slots, i \in 1..NumStocks : DelayElapsed(r, i)
  \/ \E r \in Slots, out \in {"data", "network"} : IndexResponse(r, out)
  \/ \E r \in Slots : SaveRawData(r, TRUE)
  \/ \E r \in Slots : Transform(r)
  \/ \E r \in Slots : LoadStockSkip(r)
  \/ \E r \in Slots, out \in {"ok", "error"} : LoadStockInsert(r, out)
  \/ \E r \in Slots : LoadIndexSkip(r)
  \/ \E r \in Slots, out \in {"ok", "error"} : LoadIndexInsert(r, out)

SpecOverlap == InitOverlap /\ [][NextOverlap]_vars

\* a process that calls startScheduler(), with STOCKS_TO_TRACK=AAPL
InitScheduler ==
  /\ STOCKS_TO_TRACK = <<"AAPL">>
  /\ callsLeft = MaxCalls
  /\ stock_metrics = EmptyBag
  /\ market_indicators = EmptyBag
  /\ InitCalls
  /\ EngineIdle
  /\ ETL_SCHEDULE \in Schedules
  /\ SchedulerNotStarted

NextScheduler ==
  \/ \E r \in Slots : StartScheduler(r)
  \/ \E r \in Slots : CronTick(r)
  \/ \E r \in Slots : RunSettled(r)
  \/ \E r \in Slots, i \in 1..NumStocks, out \in {"data", "network"} : PriceResponse(r, i, out)
  \/ \E r \in Slots, i \in 1..NumStocks : OverviewResponse(r, i, "ok")
  \/ \E r \in Slots, i \in 1..NumStocks : DelayElapsed(r, i)
  \/ \E r \in Slots, out \in {"data", "network"} : IndexResponse(r, out)
  \/ \E r \in Slots : SaveRawData(r, TRUE)
  \/ \E r \in Slots : Transform(r)
  \/ \E r \in Slots : LoadStockSkip(r)
  \/ \E r \in Slots, out \in {"ok", "error"} : LoadStockInsert(r, out)
  \/ \E r \in Slots : LoadIndexSkip(r)
  \/ \E r \in Slots, out \in {"ok", "error"} : LoadIndexInsert(r, out)
  \/ \E r \in Slots, message \in StageErrors : StageRaises(r, message)

SpecScheduler == InitScheduler /\ [][NextScheduler]_vars

\* ---- the Metric Engine on its own ---------------------------------------------------
\* lengths of the series handed to the engine: around each lookback window
BarCounts == {0, 1, 2, 3, 7, 8, 30, 31, 90, 91, MaxBars}

\* close, in tenths, of the bar of day d under price pattern p: flat at 2.0,
\* alternating 1.0 and 3.0, cycling through 1.5, 2.0 and 3.0
Patterns == 1..3
PatternClose(p, d) ==
  CASE p = 1 -> 20
    [] p = 2 -> IF d % 2 = 0 THEN 10 ELSE 30
    [] p = 3 -> <<15, 20, 30>>[(d % 3) + 1]

\* orders in which the n bars of days 1..n arrive: every order for a short
\* series; ascending, descending, rotated and interleaved for a long one
Arrangements(n) ==
  IF n <= MaxPermuted
  THEN {f \in [1..n -> 1..n] : \A i, j \in 1..n : f[i] = f[j] => i = j}
  ELSE {[i \in 1..n |-> i],
        [i \in 1..n |-> n + 1 - i],
        [i \in 1..n |-> ((i + (n \div 2) - 1) % n) + 1],
        [i \in 1..n |-> IF 2 * i <= n THEN 2 * i ELSE 2 * (i - (n \div 2)) - 1]}

EquitySeries(p, order) ==
  [i \in DOMAIN order |->
     LET d == order[i]
         c == PatternClose(p, d)
     IN [key |-> d, value |-> DailyBar(c + 1, c + 5, c - 5, c, 1000 + d)]]

IndexSeries(p, order) ==
  [i \in DOMAIN order |->
     LET d == order[i]
         c == PatternClose(p, d)
     IN HistoricalBar(d, c + 1, c + 5, c - 5, c, 1000 + d)]

\* the eleven fields calculateStockMetrics destructures from the overview, in
\* the order of lines 78-88
OverviewFields ==
  <<"MarketCapitalization", "PERatio", "DividendYield", "EPS", "RevenueTTM",
    "GrossProfitTTM", "ProfitMargin", "OperatingMarginTTM", "ReturnOnAssetsTTM",
    "ReturnOnEquityTTM", "DilutedEPSTTM">>

OverviewFieldSet == {OverviewFields[k] : k \in DOMAIN OverviewFields}

\* what a field of the overview payload can hold: the empty string, zero, a
\* whole number, a fraction, a negative fraction, and the text the upstream
\* puts where it has no figure
OverviewTexts ==
  {<< >>, <<"0">>, <<"2", "0">>, <<"0", ".", "0", "2">>, <<"-", "1", ".", "5">>,
   <<"N", "o", "n", "e">>}

\* an overview with every field: field number k holds the text "k.5"
CompleteOverview ==
  [f \in OverviewFieldSet |->
     DecimalTenths(10 * (CHOOSE k \in DOMAIN OverviewFields : OverviewFields[k] = f) + 5)]

\* the overview payloads: complete; without any field; one field alone;
\* complete with one field replaced; one field missing and another replaced
Overviews ==
  {CompleteOverview, [f \in {} |-> << >>]}
  \cup {[f \in {g} |-> t] : g \in OverviewFieldSet, t \in OverviewTexts}
  \cup {[CompleteOverview EXCEPT ![g] = t] : g \in OverviewFieldSet, t \in OverviewTexts}
  \cup {[f \in OverviewFieldSet \ {g} |-> IF f = h THEN t ELSE CompleteOverview[f]] :
          g \in OverviewFieldSet, h \in OverviewFieldSet, t \in OverviewTexts}

\* the RawSeries the Extractor can hand over: fetched (fetchStockDataValue,
\* fetchMarketIndexData's success shape) or failed
EngineInputs ==
  {fetchStockDataValue("AAPL", EquitySeries(p, order), OverviewPayload) :
     p \in Patterns, order \in UNION {Arrangements(n) : n \in BarCounts}}
  \cup {fetchStockDataValue("AAPL", EquitySeries(3, <<1, 2>>), overview) :
     overview \in Overviews}
  \cup {[index |-> INDEX_NAME, historical |-> IndexSeries(p, order), extractedAt |-> today] :
     p \in Patterns, order \in UNION {Arrangements(n) : n \in BarCounts}}
  \cup {fetchStockDataFailed("AAPL", StockErrorMessage("AAPL", out)) :
     out \in {"network", "errorPayload", "malformed"}}
  \cup {fetchMarketIndexData(out) : out \in {"network", "malformed"}}

InitMetrics ==
  /\ STOCKS_TO_TRACK = <<"AAPL">>
  /\ callsLeft = 0
  /\ stock_metrics = EmptyBag
  /\ market_indicators = EmptyBag
  /\ InitCalls
  /\ rawSeries \in EngineInputs
  /\ passed = rawSeries
  /\ returned = << >>
  /\ ETL_SCHEDULE = DefaultSchedule
  /\ SchedulerNotStarted

callVars == <<STOCKS_TO_TRACK, callsLeft, pc, kind, extractVars, transformVars,
              loadVars, result, tables, fault, schedulerVars>>

\* calculateStockMetrics(stockData) is invoked on the equity RawSeries
InvokeStock ==
  /\ Has(rawSeries, "symbol")
  /\ Len(returned) < MaxInvocations
  /\ returned' = Append(returned, calculateStockMetrics(rawSeries))
  /\ UNCHANGED <<rawSeries, passed, today, callVars>>

\* calculateMarketIndicators(marketData) is invoked on the index RawSeries
InvokeIndex ==
  /\ Has(rawSeries, "index")
  /\ Len(returned) < MaxInvocations
  /\ returned' = Append(returned, calculateMarketIndicators(rawSeries))
  /\ rawSeries' = historicalAfterCall(rawSeries)
  /\ UNCHANGED <<passed, today, callVars>>

\* time passes between two invocations
ClockAdvances ==
  /\ today < MaxDay
  /\ today' = today + 1
  /\ UNCHANGED <<engineVars, callVars>>

NextMetrics ==
  \/ InvokeStock
  \/ InvokeIndex
  \/ ClockAdvances

SpecMetrics == InitMetrics /\ [][NextMetrics]_vars

\* ---- properties --------------------------------------------------------------------
LoadReturned(r) == loadResult[r] # NotYet

\* positions of the writes call r issued for record i of table t (i = 0: index)
WritesFor(r, t, i) ==
  {k \in DOMAIN writes[r] : writes[r][k].table = t /\ writes[r][k].i = i}

StockWrites(r) == {k \in DOMAIN writes[r] : writes[r][k].table = "stock_metrics"}
IndexWrites(r) == {k \in DOMAIN writes[r] : writes[r][k].table = "market_indicators"}

CarriesError(rec) == Has(rec, "error")

\* C1: when calls are made one after the other, a write of a non-error record
\* that reaches healthy storage does not fail, also when the same (identifier,
\* date) was written by an earlier call: the record is not counted as an error,
\* and exactly one row holds its key.
C1_IdempotentReload ==
  \A r \in Slots : \A k \in DOMAIN writes[r] :
    (writes[r][k].out = "ok" /\ \A q \in Slots \ {r} : pc[q] = "idle") =>
      /\ writes[r][k].ok
      /\ IF writes[r][k].table = "stock_metrics"
         THEN RowsWithKey(stock_metrics, writes[r][k].key) = 1
         ELSE RowsWithKey(market_indicators, writes[r][k].key) = 1

\* C2: each table holds at most one row per (identifier, date), whatever calls
\* were made and however their writes interleaved.
C2_UniqueKeys ==
  /\ \A x \in BagToSet(stock_metrics) :
       RowsWithKey(stock_metrics, KeyOf(x)) = 1
  /\ \A x \in BagToSet(market_indicators) :
       RowsWithKey(market_indicators, KeyOf(x)) = 1

\* two overlapping calls (slot 2 is taken only while slot 1 is busy) have both
\* sent a write for the same equity key and for the same index key to healthy
\* storage
C2_Witness ==
  /\ \E k \in StockWrites(1), j \in StockWrites(2) :
       /\ writes[1][k].key = writes[2][j].key
       /\ writes[1][k].out = "ok" /\ writes[2][j].out = "ok"
  /\ \E k \in IndexWrites(1), j \in IndexWrites(2) :
       /\ writes[1][k].key = writes[2][j].key
       /\ writes[1][k].out = "ok" /\ writes[2][j].out = "ok"

\* C3: within one extraction at most one equity has an upstream request in
\* flight, and equity i+1 is requested only once the fetch of equity i has
\* finished (its delay included).
InFlight(f) == f.st \in {"price", "overview"}
Requested(f) == f.st \in {"price", "overview", "delay", "done"}

C3_SequentialFetches ==
  \A r \in Slots :
    /\ Cardinality({i \in DOMAIN fetch[r] : InFlight(fetch[r][i])}) <= 1
    /\ \A i \in DOMAIN fetch[r] :
         (i + 1 \in DOMAIN fetch[r] /\ Requested(fetch[r][i + 1]))
           => fetch[r][i].st = "done"

\* C4: a finished pipeline run has resolved to a result: {success: false,
\* error} with the raised error's message when a stage raised, a result with
\* success true when none did.
C4_NeverThrows ==
  \A r \in Slots :
    (kind[r] = "pipeline" /\ pc[r] = "done") =>
      IF fault[r] # "none"
      THEN /\ DOMAIN result[r] = {"success", "error"}
           /\ result[r].success = FALSE
           /\ result[r].error \in StageErrors
      ELSE /\ Has(result[r], "success")
           /\ result[r].success = TRUE

\* the load stage raised after a write had been made
C4_Witness ==
  \E r \in Slots :
    /\ kind[r] = "pipeline" /\ pc[r] = "done"
    /\ fault[r] = "load"
    /\ writes[r] # << >>
    /\ result[r].success = FALSE

\* C5: in a pipeline run where only the second of the three equities fails
\* upstream extraction and storage is healthy, extraction yields three
\* RawSeries (the second degenerate), transformation yields non-error records
\* for equities 1 and 3, and the Loader writes exactly those two and reports
\* stocksLoaded = 2 and stockErrors = 1.
OnlySecondFails(r) ==
  /\ kind[r] = "pipeline" /\ pc[r] = "done" /\ fault[r] = "none"
  /\ DOMAIN fetch[r] = 1..3
  /\ fetch[r][1].out = "ok" /\ fetch[r][1].value.timeSeries # << >>
  /\ fetch[r][2].out # "ok"
  /\ fetch[r][3].out = "ok" /\ fetch[r][3].value.timeSeries # << >>
  /\ \A k \in DOMAIN writes[r] : writes[r][k].out = "ok"

C5_PartialFailureIsolation ==
  \A r \in Slots :
    OnlySecondFails(r) =>
      /\ CarriesError(fetch[r][2].value)
      /\ ~CarriesError(stockMetrics[r][1])
      /\ CarriesError(stockMetrics[r][2])
      /\ ~CarriesError(stockMetrics[r][3])
      /\ {writes[r][k].i : k \in StockWrites(r)} = {1, 3}
      /\ loadResult[r].stocksLoaded = 2
      /\ loadResult[r].stockErrors = 1

\* C6: once every fetch has returned there is exactly one RawSeries per
\* configured equity, in order, and after the index fetch one for the index; a
\* failed item carries exactly identifier, error message and extraction
\* timestamp, a fetched one its series; extraction goes on to the audit write
\* and returns whatever items failed.
FailedItemShape(v, id, idField) ==
  /\ DOMAIN v = {idField, "error", "extractedAt"}
  /\ v[idField] = id
  /\ v.error \in UpstreamErrors \cup {"Network Error"}

C7_WriteFailureIsolation ==
  \A r \in Slots :
    /\ \A i \in DOMAIN stockMetrics[r] :
         (i < idx[r] /\ ~CarriesError(stockMetrics[r][i]))
           => Cardinality(WritesFor(r, "stock_metrics", i)) = 1
    /\ (pc[r] = "loadingIndex" \/ LoadReturned(r)) =>
         /\ idx[r] = Len(stockMetrics[r]) + 1
         /\ Len(results[r].success) + Len(results[r].errors) = Len(stockMetrics[r])
    /\ (LoadReturned(r) /\ marketIndicators[r] # Null
          /\ ~CarriesError(marketIndicators[r]))
         => Cardinality(WritesFor(r, "market_indicators", 0)) = 1

\* load() has returned after the first equity write returned an error, the
\* second threw, and the third and the index write were still made
C7_Witness ==
  \E r \in Slots :
    /\ LoadReturned(r)
    /\ Len(writes[r]) = 4
    /\ writes[r][1].out = "error" /\ writes[r][1].i = 1
    /\ writes[r][2].out = "throw" /\ writes[r][2].i = 2
    /\ writes[r][3].ok /\ writes[r][3].i = 3
    /\ writes[r][4].table = "market_indicators"

\* C8: no write is issued for a record that carries an error: an equity record
\* with an error that the loop has passed has zero writes and one entry in
\* results.errors, an index record with an error has zero writes and is
\* reported as one indicator error; the rows of storage are those it held
\* before the call and those of the writes that succeeded.
ErrorsBefore(r, n) ==
  Cardinality({i \in 1..n : CarriesError(stockMetrics[r][i])})
FailedWrites(r) == {k \in StockWrites(r) : ~writes[r][k].ok}

C8_NoWriteForErrorRecord ==
  \A r \in Slots :
    /\ \A i \in DOMAIN stockMetrics[r] :
         CarriesError(stockMetrics[r][i]) => WritesFor(r, "stock_metrics", i) = {}
    /\ Len(results[r].errors) =
         ErrorsBefore(r, idx[r] - 1) + Cardinality(FailedWrites(r))
    /\ \A x \in BagToSet(stock_metrics) \cup BagToSet(market_indicators) :
         \/ x \in BagToSet(PriorStockRows(1)) \cup BagToSet(PriorIndexRows(1))
         \/ \E k \in DOMAIN writes[r] : writes[r][k].ok /\ writes[r][k].key = KeyOf(x)
         \/ kind[r] = "none"
    /\ (marketIndicators[r] # Null /\ CarriesError(marketIndicators[r])) =>
         /\ IndexWrites(r) = {}
         /\ LoadReturned(r) =>
              loadResult[r].indicatorsLoaded = 0 /\ loadResult[r].indicatorErrors = 1

\* load() has returned for a batch and an index record that carry an error
\* next to a full set of fields
C8_Witness ==
  \E r \in Slots :
    /\ LoadReturned(r)
    /\ \E i \in DOMAIN stockMetrics[r] :
         CarriesError(stockMetrics[r][i]) /\ Has(stockMetrics[r][i], "price")
    /\ marketIndicators[r] # Null
    /\ CarriesError(marketIndicators[r]) /\ Has(marketIndicators[r], "price")

\* C9: the counts load() returns: stocksLoaded is the number of equity writes
\* that succeeded, stockErrors the number of the other records of the batch,
\* indicatorsLoaded is 1 exactly when the index write succeeded and
\* indicatorErrors is 1 otherwise (also for an absent index record).
C9_LoadCounts ==
  \A r \in Slots :
    LoadReturned(r) =>
      LET lr == loadResult[r]
          okStock == {k \in StockWrites(r) : writes[r][k].ok}
          okIndex == {k \in IndexWrites(r) : writes[r][k].ok}
      IN /\ lr.stocksLoaded = Cardinality(okStock)
         /\ lr.stockErrors = Len(stockMetrics[r]) - Cardinality(okStock)
         /\ lr.stocksLoaded + lr.stockErrors = Len(stockMetrics[r])
         /\ lr.indicatorsLoaded + lr.indicatorErrors = 1
         /\ (lr.indicatorsLoaded = 1) <=> (okIndex # {})
         /\ (marketIndicators[r] = Null) => (lr.indicatorErrors = 1)

\* load() has returned for a batch with one record written and one failed, and
\* no index record
C9_Witness ==
  \E r \in Slots :
    /\ LoadReturned(r)
    /\ marketIndicators[r] = Null
    /\ loadResult[r].stocksLoaded = 1
    /\ loadResult[r].stockErrors = 1

\* C10: when only the write of the index record fails, the result of the run
\* reports indicatorsLoaded 0 and indicatorErrors 1 next to the equity counts
\* of the run.
OnlyIndexWriteFails(r) ==
  /\ kind[r] = "pipeline" /\ pc[r] = "done" /\ fault[r] = "none"
  /\ \A k \in StockWrites(r) : writes[r][k].ok
  /\ \E k \in IndexWrites(r) : writes[r][k].out # "ok"

C10_IndexFailureReported ==
  \A r \in Slots :
    OnlyIndexWriteFails(r) =>
      /\ {"stocksLoaded", "stockErrors", "indicatorsLoaded", "indicatorErrors"}
           \subseteq DOMAIN result[r]
      /\ result[r].indicatorsLoaded = 0
      /\ result[r].indicatorErrors = 1
      /\ result[r].stocksLoaded = Cardinality(StockWrites(r))

\* C11: a pipeline run moves only Idle -> Extracting -> Transforming -> Loading
\* -> Done, or from a stage to Failed.  Transformation starts only after every
\* fetch and the audit write have finished; no storage write is issued before
\* transformation has finished; no fetch, audit write or stage is repeated;
\* once a stage has raised the run is Failed and nothing more of it executes.
RunStateOf(p, f) ==
  CASE p = "idle" -> "Idle"
    [] p = "done" -> IF f = "none" THEN "Done" ELSE "Failed"
    [] p \in {"extracting", "index", "audit"} -> "Extracting"
    [] p = "transforming" -> "Transforming"
    [] p \in {"loadingStocks", "loadingIndex"} -> "Loading"

RunTransitions ==
  {<<"Idle", "Extracting">>, <<"Extracting", "Transforming">>,
   <<"Transforming", "Loading">>, <<"Loading", "Done">>,
   <<"Extracting", "Failed">>, <<"Transforming", "Failed">>, <<"Loading", "Failed">>}

FetchRank(f) ==
  CASE f.st = "price" -> 1 [] f.st = "overview" -> 2 [] f.st = "delay" -> 3
    [] f.st = "done" -> 4

C11_StageInvariant ==
  \A r \in Slots :
    kind[r] = "pipeline" =>
      LET state == RunStateOf(pc[r], fault[r])
          transformed == Len(stockMetrics[r]) = NumStocks
      IN /\ (state \in {"Transforming", "Loading", "Done"}) =>
              /\ AllFetched(fetch[r]) /\ marketData[r] # NotYet
              /\ Len(audit[r]) = 1 /\ rawData[r] # NotYet
         /\ Len(audit[r]) <= 1
         /\ (state \in {"Idle", "Extracting", "Transforming"}) =>
              ~transformed /\ writes[r] = << >>
         /\ (state \in {"Loading", "Done"}) => transformed
         /\ writes[r] # << >> => transformed /\ rawData[r] # NotYet
         /\ fault[r] # "none" => state = "Failed" /\ result[r].success = FALSE
         /\ fault[r] = "extract" => ~transformed /\ writes[r] = << >>
         /\ fault[r] = "transform" => ~transformed /\ writes[r] = << >>
         /\ fault[r] = "load" => transformed

C11_StageStep ==
  \A r \in Slots :
    kind'[r] = "pipeline" =>
      LET from == RunStateOf(pc[r], fault[r])
          to == RunStateOf(pc'[r], fault'[r])
      IN /\ from # to => <<from, to>> \in RunTransitions
         /\ \A i \in DOMAIN fetch[r] :
              i \in DOMAIN fetch'[r] /\ FetchRank(fetch'[r][i]) >= FetchRank(fetch[r][i])
         /\ (from = "Transforming" /\ stockMetrics'[r] # stockMetrics[r]) => to = "Loading"
         /\ (from \in {"Done", "Failed"}) =>
              /\ to = from
              /\ fetch'[r] = fetch[r] /\ audit'[r] = audit[r]
              /\ stockMetrics'[r] = stockMetrics[r] /\ writes'[r] = writes[r]
              /\ result'[r] = result[r]

C11_StageOrder == [](C11_StageInvariant) /\ [][C11_StageStep]_vars

\* a run whose transformation raised: extraction and the audit write are done,
\* nothing was transformed or written, the run is Failed
C11_Witness ==
  \E r \in Slots :
    /\ kind[r] = "pipeline"
    /\ RunStateOf(pc[r], fault[r]) = "Failed"
    /\ fault[r] = "transform"
    /\ Len(audit[r]) = 1
    /\ writes[r] = << >>

\* ---- properties of the Metric Engine -------------------------------------------------
Lookbacks == {7, 30, 90}
ChangeField(k) == CASE k = 7 -> "change7d" [] k = 30 -> "change30d" [] k = 90 -> "change90d"
PercentField(k) ==
  CASE k = 7 -> "percentChange7d" [] k = 30 -> "percentChange30d"
    [] k = 90 -> "percentChange90d"

IsEquity(raw) == Has(raw, "symbol")
SeriesOf(raw) == IF IsEquity(raw) THEN raw.timeSeries ELSE raw.historical
BarCount(raw) == Len(SeriesOf(raw))

DatesOf(raw) ==
  IF IsEquity(raw) THEN {raw.timeSeries[i].key : i \in DOMAIN raw.timeSeries}
  ELSE {raw.historical[i].date : i \in DOMAIN raw.historical}

BarOn(raw, d) ==
  IF IsEquity(raw)
  THEN LET bar == raw.timeSeries[CHOOSE i \in DOMAIN raw.timeSeries :
                                   raw.timeSeries[i].key = d].value
       IN [date |-> d, open |-> parseFloat(bar.open), high |-> parseFloat(bar.high),
           low |-> parseFloat(bar.low), close |-> parseFloat(bar.close),
           volume |-> parseInt(bar.volume)]
  ELSE raw.historical[CHOOSE i \in DOMAIN raw.historical : raw.historical[i].date = d]

\* the date that has exactly i later dates in D
DateAtRank(D, i) == CHOOSE d \in D : Cardinality({e \in D : e > d}) = i

\* closes by recency among the 31 most recent bars: position i + 1 holds the
\* close of the bar that has exactly i later bars
RecentCloses(raw) ==
  LET D == DatesOf(raw)
      recent == {d \in D : Cardinality({e \in D : e > d}) <= 30}
      closes == [i \in 1..Cardinality(recent) |->
                   BarOn(raw, DateAtRank(recent, i - 1)).close]
  IN SubSeq(closes, 1, Cardinality(recent))

\* C13: the volatility of the returned record is null exactly when n <= 30;
\* for n > 30 it is sqrt(V) * sqrt(252) * 100 where V is the population
\* variance (divisor 30) of the 30 simple returns (close[i] - close[i+1]) /
\* close[i+1], i = 0..29, over the closes taken latest first.
C13_Volatility ==
  \A j \in DOMAIN returned :
    (~CarriesError(passed) /\ BarCount(passed) > 0) =>
      LET vol == returned[j].volatility.volatility30d
          n == BarCount(passed)
          c == RecentCloses(passed)
          ret == SubSeq([i \in 1..30 |-> RatDiv(RatSub(c[i], c[i + 1]), c[i + 1])],
                        1, 30)
          sum == RatSum(ret)
          squares == RatSum([i \in 1..30 |-> RatMul(ret[i], ret[i])])
          \* V = E[r^2] - E[r]^2
          V == RatSub(RatDiv(squares, Num(30)),
                      RatMul(RatDiv(sum, Num(30)), RatDiv(sum, Num(30))))
      IN IF n <= 30 THEN vol = Null
         ELSE /\ vol # Null
              /\ vol = [sqrt |-> V, timesSqrt |-> Num(252), times |-> Num(100)]

\* the engine has returned a volatility with a variance above zero for an
\* equity series of 31 bars that arrived oldest first
C13_Witness ==
  /\ returned # << >>
  /\ IsEquity(passed) /\ ~CarriesError(passed)
  /\ BarCount(passed) = 31
  /\ passed.timeSeries[1].key = 1
  /\ returned[1].volatility.volatility30d # Null
  /\ returned[1].volatility.volatility30d.sqrt.n > 0

\* C14: for a RawSeries that carries an upstream error, equity or index, the
\* returned record consists of exactly the identifier, the same error message
\* and a transformation timestamp; no date, price, price-change, volatility or
\* fundamentals field.  (The failed RawSeries has no price history to read.)
C14_ErrorShortCircuit ==
  \A j \in DOMAIN returned :
    CarriesError(passed) =>
      LET out == returned[j]
          idField == IF IsEquity(passed) THEN "symbol" ELSE "index"
      IN /\ DOMAIN out = {idField, "error", "transformedAt"}
         /\ out[idField] = passed[idField]
         /\ out.error = passed.error
         /\ out.transformedAt \in 1..today

\* the engine has returned for a failed equity RawSeries, which has neither a
\* price history nor a fundamentals snapshot
C14_Witness ==
  /\ returned # << >>
  /\ IsEquity(passed) /\ CarriesError(passed)
  /\ ~Has(passed, "timeSeries") /\ ~Has(passed, "overview")
  /\ returned[1].error = "Cannot read properties of null"

\* C15: a fetch that succeeds with an empty series gives a RawSeries without
\* error; its MetricsRecord is the degenerate record whose error is a no-data
\* message that no upstream fetch failure produces; the Loader issues no write
\* for it and counts it as an error.
NoDataShape(rec, idField, id) ==
  /\ DOMAIN rec = {idField, "error", "transformedAt"}
  /\ rec[idField] = id
  /\ rec.error \notin UpstreamErrors \cup {"Network Error"}

EmptyEquityFetch(r, i) ==
  /\ fetch[r][i].st = "done" /\ fetch[r][i].out = "ok"
  /\ fetch[r][i].value.timeSeries = << >>

EmptyIndexFetch(r) ==
  /\ marketData[r] # NotYet /\ ~CarriesError(marketData[r])
  /\ marketData[r].historical = << >>

C15_NoDataCondition ==
  \A r \in Slots :
    kind[r] = "pipeline" =>
      /\ \A i \in DOMAIN fetch[r] :
           EmptyEquityFetch(r, i) => ~CarriesError(fetch[r][i].value)
      /\ \A i \in DOMAIN stockMetrics[r] :
           EmptyEquityFetch(r, i) =>
             /\ NoDataShape(stockMetrics[r][i], "symbol", STOCKS_TO_TRACK[i])
             /\ WritesFor(r, "stock_metrics", i) = {}
             /\ (i < idx[r]) =>
                  \E e \in DOMAIN results[r].errors :
                    /\ results[r].errors[e].symbol = STOCKS_TO_TRACK[i]
                    /\ results[r].errors[e].error = stockMetrics[r][i].error
             /\ LoadReturned(r) => (loadResult[r].stockErrors >= 1)
      /\ (EmptyIndexFetch(r) /\ marketIndicators[r] # Null) =>
             /\ NoDataShape(marketIndicators[r], "index", INDEX_NAME)
             /\ IndexWrites(r) = {}
             /\ LoadReturned(r) =>
                  (loadResult[r].indicatorsLoaded = 0 /\ loadResult[r].indicatorErrors = 1)

\* load() has returned in a run where the first equity and the index were
\* fetched with an empty series
C15_Witness ==
  \E r \in Slots :
    /\ kind[r] = "pipeline" /\ LoadReturned(r)
    /\ fetch[r][1].out = "ok" /\ fetch[r][1].value.timeSeries = << >>
    /\ ~CarriesError(marketData[r]) /\ marketData[r].historical = << >>
    /\ CarriesError(stockMetrics[r][1])
    /\ loadResult[r].indicatorErrors = 1

\* C16: the result does not depend on the order in which the bars arrive: the
\* reference date is the latest date of the series, the price block is that
\* bar's open/high/low/close/volume, and the k-day change compares with the bar
\* that has exactly k later bars; a single bar is its own reference bar.
C16_ArrivalOrderIndependence ==
  \A j \in DOMAIN returned :
    (~CarriesError(passed) /\ BarCount(passed) > 0) =>
      LET out == returned[j]
          D == DatesOf(passed)
          latest == CHOOSE d \in D : \A e \in D : e <= d
          ref == BarOn(passed, latest)
      IN /\ out.date = latest
         /\ out.price = [open |-> ref.open, high |-> ref.high, low |-> ref.low,
                         close |-> ref.close, volume |-> ref.volume]
         /\ \A k \in Lookbacks :
              BarCount(passed) > k =>
                out.priceChanges[ChangeField(k)] =
                  RatSub(ref.close, BarOn(passed, DateAtRank(D, k)).close)

\* the engine has returned for an index series of 8 bars whose first bar is
\* neither the latest nor the oldest
C16_Witness ==
  /\ returned # << >>
  /\ ~IsEquity(passed) /\ ~CarriesError(passed)
  /\ BarCount(passed) = 8
  /\ passed.historical[1].date \notin {1, 8}
  /\ returned[1].date = 8
  /\ returned[1].priceChanges.change7d # Null

\* C17: a run attempts at most one audit write, and exactly one once extract()
\* has returned; the write comes after every equity fetch and the index fetch
\* and before transformation; its payload holds every RawSeries of the batch,
\* failed ones included; extract() returns that same batch whether the write
\* succeeded or not, and the step of a failed write leaves the run going.
C17_AuditInvariant ==
  \A r \in Slots :
    kind[r] = "pipeline" =>
      /\ Len(audit[r]) <= 1
      /\ pc[r] \in {"extracting", "index", "audit"} => audit[r] = << >>
      /\ (pc[r] \in {"transforming", "loadingStocks", "loadingIndex"}
            \/ stockMetrics[r] # << >> \/ LoadReturned(r)) => Len(audit[r]) = 1
      /\ audit[r] # << >> =>
           LET data == audit[r][1].data
           IN /\ AllFetched(fetch[r]) /\ marketData[r] # NotYet
              /\ DOMAIN data.stockData = 1..NumStocks
              /\ \A i \in 1..NumStocks : data.stockData[i] = fetch[r][i].value
              /\ data.marketData = marketData[r]
              /\ rawData[r] = data
      /\ (pc[r] = "done" /\ fault[r] = "none") => result[r].success = TRUE

C17_AuditStep ==
  \A r \in Slots :
    audit'[r] # audit[r] /\ audit'[r] # << >> =>
      /\ pc[r] = "audit" /\ pc'[r] = "transforming"
      /\ fault'[r] = "none" /\ result'[r] = NotYet
      /\ stockMetrics'[r] = << >> /\ writes'[r] = << >>

C17_AuditWrite == [](C17_AuditInvariant) /\ [][C17_AuditStep]_vars

\* a run has completed although its audit write failed; the payload held a
\* failed RawSeries
C17_Witness ==
  \E r \in Slots :
    /\ kind[r] = "pipeline" /\ pc[r] = "done" /\ fault[r] = "none"
    /\ Len(audit[r]) = 1 /\ ~audit[r][1].written
    /\ CarriesError(audit[r][1].data.stockData[2])
    /\ result[r].success = TRUE

\* C18: at most one pipeline run is in flight at any time: a trigger that fires
\* while a run is in flight starts no second run.
C18_SerializedRuns ==
  Cardinality({r \in Slots : kind[r] = "pipeline" /\ ~Free(r)}) <= 1

WithoutTimestamp(rec) == [f \in DOMAIN rec \ {"transformedAt"} |-> rec[f]]

C20_ChangeArithmetic ==
  \A j \in DOMAIN returned :
    (~CarriesError(passed) /\ BarCount(passed) > 0) =>
      LET changes == returned[j].priceChanges
          D == DatesOf(passed)
          ref == BarOn(passed, DateAtRank(D, 0)).close
      IN \A k \in Lookbacks :
           changes[ChangeField(k)] # Null =>
             LET cmp == BarOn(passed, DateAtRank(D, k)).close
                 abs == changes[ChangeField(k)]
                 pct == changes[PercentField(k)]
             IN /\ abs = RatSub(ref, cmp)
                /\ pct = RatDiv(RatMul(Num(100), RatSub(ref, cmp)), cmp)
                /\ RatMul(pct, cmp) = RatMul(Num(100), abs)

\* the engine has returned a 7-day change that is not a whole number, and a
\* percent change that is not one either
C20_Witness ==
  /\ returned # << >>
  /\ ~CarriesError(passed) /\ BarCount(passed) > 7
  /\ returned[1].priceChanges.change7d.d # 1
  /\ returned[1].priceChanges.percentChange7d.d # 1

\* the fundamentals field fed by each field of the overview
FundamentalOf ==
  [MarketCapitalization |-> "marketCap", PERatio |-> "peRatio",
   DividendYield |-> "dividendYield", EPS |-> "eps", RevenueTTM |-> "revenue",
   GrossProfitTTM |-> "grossProfit", ProfitMargin |-> "profitMargin",
   OperatingMarginTTM |-> "operatingMargin", ReturnOnAssetsTTM |-> "roa",
   ReturnOnEquityTTM |-> "roe", DilutedEPSTTM |-> "dilutedEPS"]

PercentageFields ==
  {"DividendYield", "ProfitMargin", "OperatingMarginTTM", "ReturnOnAssetsTTM",
   "ReturnOnEquityTTM"}

\* the number each text of the inputs denotes, as is and as a percentage; a
\* text that holds no numeral denotes no number
Denoted(text, k) ==
  CASE text = <<"0">> -> [asIs |-> Num(0), percent |-> Num(0)]
    [] text = <<"2", "0">> -> [asIs |-> Num(20), percent |-> Num(2000)]
    [] text = <<"0", ".", "0", "2">> -> [asIs |-> [n |-> 1, d |-> 50], percent |-> Num(2)]
    [] text = <<"-", "1", ".", "5">> -> [asIs |-> [n |-> -3, d |-> 2], percent |-> Num(-150)]
    [] text = <<"N", "o", "n", "e">> -> [asIs |-> NaN, percent |-> NaN]
    [] text = <<"1", "0", "0", "0", "0", "0", "0">> ->
         [asIs |-> Num(1000000), percent |-> Num(100000000)]
    [] OTHER -> [asIs |-> [n |-> 2 * k + 1, d |-> 2], percent |-> Num(100 * k + 50)]

\* C21: in the record of an equity, each of the eleven fundamentals is null when
\* its own source field is absent or empty and is otherwise the number the
\* field's text denotes (not a number when the text holds no numeral), whatever
\* the other fields hold; the five ratio fields are that number times 100, the
\* six others are that number itself.
C21_Fundamentals ==
  \A j \in DOMAIN returned :
    (IsEquity(passed) /\ ~CarriesError(passed) /\ BarCount(passed) > 0) =>
      LET overview == passed.overview
          out == returned[j].fundamentals
      IN /\ DOMAIN out = {FundamentalOf[f] : f \in OverviewFieldSet}
         /\ \A k \in DOMAIN OverviewFields :
              LET f == OverviewFields[k]
                  got == out[FundamentalOf[f]]
              IN IF ~Has(overview, f) \/ overview[f] = << >>
                 THEN got = Null
                 ELSE IF f \in PercentageFields
                      THEN got = Denoted(overview[f], k).percent
                      ELSE got = Denoted(overview[f], k).asIs

\* the engine has returned for an overview without market cap, with an empty
\* profit margin, a P/E of "2.5" and a dividend yield of "3.5": the first two are
\* null, the P/E is 5/2 and the dividend yield is 350
C21_Witness ==
  /\ returned # << >>
  /\ IsEquity(passed) /\ ~CarriesError(passed) /\ BarCount(passed) > 0
  /\ ~Has(passed.overview, "MarketCapitalization")
  /\ Has(passed.overview, "ProfitMargin") /\ passed.overview.ProfitMargin = << >>
  /\ Has(passed.overview, "PERatio") /\ passed.overview.PERatio = <<"2", ".", "5">>
  /\ Has(passed.overview, "DividendYield")
  /\ passed.overview.DividendYield = <<"3", ".", "5">>
  /\ returned[1].fundamentals.marketCap = Null
  /\ returned[1].fundamentals.profitMargin = Null
  /\ returned[1].fundamentals.peRatio = [n |-> 5, d |-> 2]
  /\ returned[1].fundamentals.dividendYield = Num(350)

\* C23: the success flag of a finished pipeline run is true exactly when no
\* stage raised, whatever happened to the items: a run in which no stage raised
\* resolves to success true also when load() counted no equity and no index
\* record as loaded, and only a run in which a stage raised resolves to
\* success false.
C23_SuccessIgnoresItemFailures ==
  \A r \in Slots :
    (kind[r] = "pipeline" /\ pc[r] = "done") =>
      /\ result[r].success <=> fault[r] = "none"
      /\ fault[r] = "none" =>
           /\ LoadReturned(r)
           /\ (loadResult[r].stocksLoaded = 0 /\ loadResult[r].indicatorsLoaded = 0)
                => result[r].success
           /\ ~Has(result[r], "error")

\* a finished run in which every equity fetch and the index fetch failed and
\* nothing was written: load() counts 0 loaded, 3 equity errors and 1 index
\* error, and the run resolved to success true
C23_Witness ==
  \E r \in Slots :
    /\ kind[r] = "pipeline" /\ pc[r] = "done" /\ fault[r] = "none"
    /\ \A i \in DOMAIN fetch[r] : fetch[r][i].out # "ok"
    /\ Len(fetch[r]) = 3
    /\ CarriesError(marketData[r])
    /\ writes[r] = << >>
    /\ loadResult[r].stocksLoaded = 0 /\ loadResult[r].stockErrors = 3
    /\ loadResult[r].indicatorsLoaded = 0 /\ loadResult[r].indicatorErrors = 1
    /\ result[r].success = TRUE

RunsStarted == MaxCalls - callsLeft

\* C22: startScheduler starts one run at once and each tick starts one more; a
\* run that settles with a failure result is logged and changes neither the
\* task nor the process, so the task stays scheduled, the process stays alive
\* and the next tick starts its run; the process exits only from
\* startScheduler's check of the cron expression, before any task or run exists.
C22_SchedulerInvariant ==
  /\ process = "starting" =>
       /\ task = "none" /\ ticks = 0 /\ RunsStarted = 0
       /\ \A r \in Slots : pc[r] = "idle"
  /\ process = "exited" =>
       /\ ~isValidCronExpression(ETL_SCHEDULE)
       /\ task = "none" /\ ticks = 0 /\ RunsStarted = 0
       /\ \A r \in Slots : pc[r] = "idle" /\ origin[r].by = "none"
  /\ process = "running" =>
       /\ isValidCronExpression(ETL_SCHEDULE)
       /\ task = "scheduled"
       /\ RunsStarted = 1 + ticks
  /\ \A r \in Slots :
       logged[r] # "none" =>
         /\ pc[r] = "done"
         /\ logged[r] = IF result[r].success THEN "success" ELSE "failure"
  /\ (process = "running" /\ callsLeft > 0 /\ NoPendingHandler
        /\ \E r \in Slots : Free(r))
       => ENABLED (\E r \in Slots : CronTick(r))

C22_SchedulerStep ==
  /\ process = "running" => (process' = "running" /\ task' = "scheduled")
  /\ (process' = "exited" /\ process # "exited") =>
       /\ process = "starting"
       /\ ~isValidCronExpression(ETL_SCHEDULE)
       /\ UNCHANGED <<task, callsLeft, pc, ticks>>
  /\ callsLeft' # callsLeft =>
       /\ callsLeft' = callsLeft - 1
       /\ \/ process = "starting" /\ process' = "running" /\ ticks' = ticks
          \/ process = "running" /\ ticks' = ticks + 1
  /\ ticks' # ticks => (ticks' = ticks + 1 /\ callsLeft' = callsLeft - 1)
  /\ failuresLogged' # failuresLogged =>
       /\ failuresLogged' = failuresLogged + 1
       /\ UNCHANGED <<process, task, ticks, callsLeft, pc>>

C22_Scheduler == [](C22_SchedulerInvariant) /\ [][C22_SchedulerStep]_vars

\* a tick has started a run after the failure result of an earlier run was
\* logged; the task is scheduled and the process alive
C22_Witness ==
  \E r \in Slots :
    /\ origin[r].by = "tick"
    /\ origin[r].after >= 1
    /\ failuresLogged >= 1
    /\ pc[r] # "done"
    /\ process = "running"
    /\ task = "scheduled"

====
